---- MODULE Spec2Model ----
(***************************************************************************)
(* Model of the blog server: the Express routes of src/server/routes.ts    *)
(* over DatabaseStorage of src/server/storage.ts (posts table, contacts    *)
(* table, and the posts/ directory of mirrored markdown files).            *)
(*                                                                         *)
(* Strings the code inspects character by character (titles, slugs,        *)
(* e-mail addresses, form fields) are sequences of one-character strings.  *)
(***************************************************************************)
EXTENDS Integers, Sequences, FiniteSets, TLC

VARIABLES posts, nextPostId, files, contacts, nextContactId, reqs, resp,
          adminEnv, client, loggedIn, content, parsed

vars == <<posts, nextPostId, files, contacts, nextContactId, reqs, resp,
          adminEnv, client, loggedIn, content, parsed>>

postVars == <<posts, nextPostId, files>>
contactVars == <<contacts, nextContactId>>
\* adminEnv: process.env.ADMIN_PASSWORD; client: the client whose request is
\* handled next; loggedIn: the clients a login has answered with success
adminVars == <<adminEnv, client, loggedIn>>
\* content: the text of a markdown file; parsed: what the parsers made of it
parseVars == <<content, parsed>>

(***************************************************************************)
(* Bounds                                                                  *)
(***************************************************************************)
MaxPostId == 2
MaxViews == 2
MaxTitleLen == 3
MaxReqs == 2
MaxContactId == 2
MaxEmailLen == 5

(***************************************************************************)
(* Character classes of the regular expressions in routes.ts               *)
(***************************************************************************)
\* String.prototype.toLowerCase on the letters the model uses
ToLowerChar(c) ==
  IF c = "A" THEN "a" ELSE IF c = "B" THEN "b" ELSE IF c = "C" THEN "c" ELSE c

\* \w : [A-Za-z0-9_]
IsWordChar(c) == c \in {"a", "b", "c", "d", "z", "A", "B", "C", "0", "1", "_"}

\* \s : white space
IsSpaceChar(c) == c \in {" ", "\t", "\n"}

ToLowerCase(s) == [i \in 1..Len(s) |-> ToLowerChar(s[i])]

\* .replace(/[^\w\s-]/g, '')
StripNonWord(s) ==
  LET Keep(c) == IsWordChar(c) \/ IsSpaceChar(c) \/ c = "-"
  IN  SelectSeq(s, Keep)

RECURSIVE DropLeading(_, _)
\* the rest of s after its leading run of characters of the set cs
DropLeading(s, cs) ==
  IF s # <<>> /\ Head(s) \in cs THEN DropLeading(Tail(s), cs) ELSE s

RECURSIVE SpacesToHyphen(_)
\* .replace(/\s+/g, '-')
SpacesToHyphen(s) ==
  IF s = <<>> THEN <<>>
  ELSE IF IsSpaceChar(Head(s))
       THEN <<"-">> \o SpacesToHyphen(DropLeading(Tail(s), {" ", "\t", "\n"}))
       ELSE <<Head(s)>> \o SpacesToHyphen(Tail(s))

\* the slug generation without its last replace
CollapseHyphensOmitted(s) == s

RECURSIVE CollapseHyphens(_)
\* .replace(/--+/g, '-')
CollapseHyphens(s) ==
  IF s = <<>> THEN <<>>
  ELSE IF Head(s) = "-" /\ Tail(s) # <<>> /\ Head(Tail(s)) = "-"
       THEN <<"-">> \o CollapseHyphens(DropLeading(Tail(s), {"-"}))
       ELSE <<Head(s)>> \o CollapseHyphens(Tail(s))

RECURSIVE DropTrailingSpace(_)
DropTrailingSpace(s) ==
  IF s # <<>> /\ IsSpaceChar(s[Len(s)])
  THEN DropTrailingSpace(SubSeq(s, 1, Len(s) - 1)) ELSE s

\* String.prototype.trim
Trim(s) == DropTrailingSpace(DropLeading(s, {" ", "\t", "\n"}))

\* the slug generated from a title when the body carries none
Slugify(title) ==
  Trim(CollapseHyphens(SpacesToHyphen(StripNonWord(ToLowerCase(title)))))

(***************************************************************************)
(* Inputs of the requests                                                  *)
(***************************************************************************)
NoString == <<>>

\* titles of the request bodies
Titles == {<<"A", " ", "b">>, <<"c">>}

\* slugs of the request bodies; NoString is a body without a slug
GivenSlugs == {NoString, <<"a", "-", "b">>, <<"c">>}

\* slugs of GET /api/posts/:slug
LookupSlugs == {<<"a", "-", "b">>, <<"c">>, <<"z">>}

\* the fields a PUT body sets: a function from a subset of the columns
UpdateData ==
  {u \in UNION {[D -> {<<"a", "-", "b">>, <<"c">>, <<"A", " ", "b">>}] :
                  D \in SUBSET {"slug", "title"}} :
     /\ "slug" \in DOMAIN u => u["slug"] \in GivenSlugs
     /\ "title" \in DOMAIN u => u["title"] \in Titles}

\* ids of the :id path parameter, one of them never assigned
PostIds == 1..(MaxPostId + 1)

(***************************************************************************)
(* The posts table and the posts/ directory                                *)
(***************************************************************************)
\* Whether the posts table itself rejects a second row with the same slug.
\* The table definition (shared/schema) is not part of the sources; the
\* specification states that uniqueness is enforced by the existence check
\* of the route and that a race is possible.
SlugUniqueConstraint == FALSE

\* rows of a select ... where slug = s
RowsBySlug(rows, s) == {p \in rows : p.slug = s}

\* rows of a select ... where id = i
RowsById(rows, i) == {p \in rows : p.id = i}

\* an insert or update the table would reject
ViolatesUnique(rows, id, s) ==
  SlugUniqueConstraint /\ \E p \in rows : p.slug = s /\ p.id # id

\* a route that inserts without looking for the slug
SlugTakenNeverChecked(rows, s) == FALSE

\* const existingPost = await storage.getPostBySlug(slug); if (existingPost)
SlugTaken(rows, s) == RowsBySlug(rows, s) # {}

\* the row db.insert(posts).values(insertPost).returning() yields: the next
\* serial id, and a view count that starts at 0
NewRow(id, slug, title) ==
  [id |-> id, slug |-> slug, title |-> title, viewCount |-> 0,
   status |-> <<"published">>]

\* an insert that replaces a stored row with the same slug
InsertRowReplacing(rows, p) == {q \in rows : q.slug # p.slug} \cup {p}

\* db.insert(posts).values(...): adds the row, whatever rows are there
InsertRow(rows, p) == rows \cup {p}

\* db.update(posts).set(updateData).where(eq(posts.id, id)).returning()
SetColumns(p, upd) ==
  [k \in DOMAIN p |-> IF k \in DOMAIN upd THEN upd[k] ELSE p[k]]

\* the frontmatter savePostToFile writes for a post
FileOf(p) == [title |-> p.title, status |-> p.status]

\* fs.writeFile(<slug>.md): creates or overwrites
WriteFile(fs, p) ==
  [s \in (DOMAIN fs) \cup {p.slug} |-> IF s = p.slug THEN FileOf(p) ELSE fs[s]]

\* deletePostFile: fs.unlink(<slug>.md), an error (no such file) is logged
DeletePostFile(fs, s) == [t \in (DOMAIN fs) \ {s} |-> fs[t]]

\* an update that writes the count read before any view, plus one
IncrementViewCountFromStale(rows, s) ==
  {IF p.slug = s THEN [p EXCEPT !.viewCount = 1] ELSE p : p \in rows}

\* sql`viewCount + 1` where slug = s
IncrementViewCount(rows, s) ==
  {IF p.slug = s THEN [p EXCEPT !.viewCount = @ + 1] ELSE p : p \in rows}

\* the slug a create request is stored under
SlugOfBody(title, given) == IF given = NoString THEN Slugify(title) ELSE given

\* the answer to the last completed request, with the request's inputs
Response(op, status, error, id, slug, title) ==
  [op |-> op, status |-> status, error |-> error, id |-> id, slug |-> slug,
   title |-> title, derived |-> FALSE, email |-> NoString,
   wellFormed |-> TRUE, details |-> FALSE,
   password |-> [kind |-> "missing", text |-> ""],
   boot |-> [unreadable |-> {}, rejected |-> {}], result |-> <<>>]

NoResponse == Response("none", 0, "", 0, NoString, NoString)

\* a schema failure answered like any other error
ZodErrorAnsweredAs500(op, id) ==
  [Response(op, 500, "Failed to save post", id, NoString, NoString)
     EXCEPT !.wellFormed = FALSE]

\* catch (error instanceof z.ZodError): 400 { error, details: error.errors }
ZodErrorResponse(op, id) ==
  [Response(op, 400, "Invalid post data", id, NoString, NoString)
     EXCEPT !.wellFormed = FALSE, !.details = TRUE]

(***************************************************************************)
(* Post requests, each run to completion                                   *)
(***************************************************************************)
\* POST /api/admin/posts
CreatePost(titles) ==
  /\ \/ \* insertPostSchema.parse throws a ZodError
        /\ resp' = ZodErrorResponse("createPost", 0)
        /\ UNCHANGED postVars
     \/ \E title \in titles, given \in GivenSlugs :
          LET slug == SlugOfBody(title, given)
              answer(status, error, id) ==
                [Response("createPost", status, error, id, slug, title)
                   EXCEPT !.derived = (given = NoString)]
          IN  IF SlugTaken(posts, slug)
              THEN /\ resp' = answer(400, "Post with this slug already exists", 0)
                   /\ UNCHANGED postVars
              ELSE /\ nextPostId <= MaxPostId
                   /\ IF ViolatesUnique(posts, nextPostId, slug)
                      THEN /\ resp' = answer(500, "Failed to create post", 0)
                           /\ UNCHANGED postVars
                      ELSE LET p == NewRow(nextPostId, slug, title) IN
                           /\ posts' = InsertRow(posts, p)
                           /\ nextPostId' = nextPostId + 1
                           /\ files' = WriteFile(files, p)
                           /\ resp' = answer(200, "", p.id)
  /\ UNCHANGED <<contactVars, reqs, adminVars, parseVars>>

\* PUT /api/admin/posts/:id
UpdatePost ==
  /\ \/ \* updatePostSchema.parse throws a ZodError
        /\ \E id \in PostIds :
             resp' = ZodErrorResponse("updatePost", id)
        /\ UNCHANGED postVars
     \/ \* no row with the id: updatePost returns undefined
        /\ \E id \in PostIds :
             /\ RowsById(posts, id) = {}
             /\ resp' = Response("updatePost", 404, "Post not found", id,
                                 NoString, NoString)
        /\ UNCHANGED postVars
     \/ \E id \in PostIds, upd \in UpdateData :
          /\ RowsById(posts, id) # {}
          /\ LET old == CHOOSE p \in posts : p.id = id
                 new == SetColumns(old, upd)
             IN  IF ViolatesUnique(posts, id, new.slug)
                 THEN /\ resp' = Response("updatePost", 500,
                                          "Failed to update post", id,
                                          new.slug, new.title)
                      /\ UNCHANGED postVars
                 ELSE /\ posts' = (posts \ {old}) \cup {new}
                      /\ files' = WriteFile(files, new)
                      /\ resp' = Response("updatePost", 200, "", id, new.slug,
                                          new.title)
                      /\ UNCHANGED nextPostId
  /\ UNCHANGED <<contactVars, reqs, adminVars, parseVars>>

\* a delete that answers true without looking for the row
DeletePostStorageNoLookup(rows, fs, id) ==
  [ok |-> TRUE, posts |-> {p \in rows : p.id # id}, files |-> fs]

\* DatabaseStorage.deletePost
DeletePostStorage(rows, fs, id) ==
  IF RowsById(rows, id) # {}
  THEN LET p == CHOOSE q \in rows : q.id = id
       IN  [ok |-> TRUE, posts |-> rows \ {p},
            files |-> DeletePostFile(fs, p.slug)]
  ELSE [ok |-> FALSE, posts |-> rows, files |-> fs]

\* DELETE /api/admin/posts/:id; with noted, the record of the answer names
\* the slug and title of the row deleted
DeletePostNoting(noted) ==
  /\ \E id \in PostIds :
       LET r == DeletePostStorage(posts, files, id)
           slug == IF noted /\ r.ok
                   THEN (CHOOSE p \in posts : p.id = id).slug ELSE NoString
           title == IF noted /\ r.ok
                    THEN (CHOOSE p \in posts : p.id = id).title ELSE NoString
       IN
       /\ posts' = r.posts
       /\ files' = r.files
       /\ resp' = IF r.ok
                  THEN Response("deletePost", 200, "", id, slug, title)
                  ELSE Response("deletePost", 404, "Post not found", id,
                                NoString, NoString)
  /\ UNCHANGED <<nextPostId, contactVars, reqs, adminVars, parseVars>>

DeletePost == DeletePostNoting(FALSE)

\* GET /api/posts/:slug
GetPost ==
  /\ \E slug \in LookupSlugs :
       IF RowsBySlug(posts, slug) = {}
       THEN /\ resp' = Response("getPost", 404, "Post not found", 0, slug,
                                NoString)
            /\ UNCHANGED postVars
       ELSE /\ \A p \in RowsBySlug(posts, slug) : p.viewCount < MaxViews
            /\ \E p \in RowsBySlug(posts, slug) :
                 resp' = Response("getPost", 200, "", p.id, slug, NoString)
            /\ posts' = IncrementViewCount(posts, slug)
            /\ UNCHANGED <<nextPostId, files>>
  /\ UNCHANGED <<contactVars, reqs, adminVars, parseVars>>

\* the environment sets no ADMIN_PASSWORD
NoEnv == [set |-> FALSE, value |-> ""]

\* no client has logged in; the Admin page is the first to send a request
AdminInit ==
  /\ adminEnv = NoEnv
  /\ client = "page"
  /\ loggedIn = {}

\* no file has been parsed
NoParse == [done |-> FALSE, db |-> <<>>, mem |-> <<>>]

ParseInit ==
  /\ content = <<>>
  /\ parsed = NoParse

\* no request is in flight
NoRequests ==
  [r \in 1..MaxReqs |->
     [pc |-> "idle", slug |-> NoString, title |-> NoString, id |-> 0,
      status |-> 0]]

Init ==
  /\ posts = {}
  /\ nextPostId = 1
  /\ files = <<>>
  /\ contacts = {}
  /\ nextContactId = 1
  /\ reqs = NoRequests
  /\ resp = NoResponse
  /\ AdminInit
  /\ ParseInit

Next ==
  \/ CreatePost(Titles)
  \/ UpdatePost
  \/ DeletePost
  \/ GetPost

Spec == Init /\ [][Next]_vars

(***************************************************************************)
(* Properties of the post routes, checked under Spec                       *)
(***************************************************************************)
\* C1: after any sequence of completed create, update and delete requests
\* no two stored posts have the same slug.
C1_SlugUnique == \A p, q \in posts : p.slug = q.slug => p = q

\* C2: a create request whose slug, given or derived, is the slug of a
\* stored post is answered 400 and changes neither the posts nor the files.
C2_DuplicateSlugRejected ==
  [][(/\ resp'.op = "createPost"
      /\ resp'.error # "Invalid post data"
      /\ \E p \in posts : p.slug = resp'.slug)
     => (resp'.status = 400 /\ posts' = posts /\ files' = files)]_vars

\* a create request for the slug of a stored post has been answered 400
C2_Witness ==
  /\ resp.op = "createPost"
  /\ resp.status = 400
  /\ resp.derived
  /\ \E p \in posts : p.slug = resp.slug /\ p.slug # NoString

\* C5: a successful GET /api/posts/:slug raises the view count of the post
\* it returns by exactly one and changes no other post.
C5_ViewCountPlusOne ==
  [][(resp'.op = "getPost" /\ resp'.status = 200)
     => \A p \in posts :
          IF p.id = resp'.id
          THEN [p EXCEPT !.viewCount = @ + 1] \in posts'
          ELSE p \in posts']_vars

\* C6: after a successful delete of a post neither its row nor its file
\* <slug>.md exists, and every other post and its file are as before.
C6_DeleteRemovesRowAndFile ==
  [][(resp'.op = "deletePost" /\ resp'.status = 200)
     => \A p \in posts :
          IF p.id = resp'.id
          THEN /\ \A q \in posts' : q.id # p.id
               /\ p.slug \notin DOMAIN files'
          ELSE /\ p \in posts'
               /\ p.slug \in DOMAIN files
                    => (p.slug \in DOMAIN files' /\ files'[p.slug] = files[p.slug])]_vars

\* C7: a delete with an id of no stored post is answered 404 and changes
\* neither the posts nor the files.
C7_DeleteUnknownIs404 ==
  [][(resp'.op = "deletePost" /\ \A p \in posts : p.id # resp'.id)
     => (resp'.status = 404 /\ posts' = posts /\ files' = files)]_vars

\* a delete of an unknown id has been answered while posts are stored
C7_Witness ==
  /\ resp.op = "deletePost"
  /\ resp.status = 404
  /\ posts # {}
  /\ \A p \in posts : p.id # resp.id

\* C17: a create or update request whose body fails the post schema is
\* answered 400 with an error string and the validation details, and no post
\* row, id counter or mirrored file changes.
C17_InvalidBodyIs400 ==
  [][(resp'.op \in {"createPost", "updatePost"} /\ ~resp'.wellFormed)
     => /\ resp'.status = 400
        /\ resp'.error # ""
        /\ resp'.details
        /\ UNCHANGED postVars]_vars

\* an update with an invalid body was answered while a post and its file
\* were stored
C17_Witness ==
  /\ resp.op = "updatePost"
  /\ ~resp.wellFormed
  /\ \E p \in posts : p.id = resp.id /\ p.slug \in DOMAIN files

\* C24: after completed create, update and delete requests a file <slug>.md
\* exists exactly when a stored post has that slug, and it holds what
\* savePostToFile writes for that post.
C24_FileMirrorsRow ==
  /\ DOMAIN files = {p.slug : p \in posts}
  /\ \A p \in posts : p.slug \in DOMAIN files => files[p.slug] = FileOf(p)

(***************************************************************************)
(* Slug generation over all short titles: SpecSlug                         *)
(***************************************************************************)
TitleChars == {"A", "b", " ", "\t", "-", "!", "_"}

\* every string over cs of at most n characters
StringsUpTo(cs, n) == UNION {[1..k -> cs] : k \in 0..n}

AllTitles == StringsUpTo(TitleChars, MaxTitleLen)

\* the table as an earlier run of the server left it
StoredBefore ==
  {{}, {NewRow(1, <<"a", "-", "b">>, <<"x">>)}, {NewRow(1, <<"-">>, <<"x">>)}}

InitSlug ==
  /\ posts \in StoredBefore
  /\ nextPostId = Cardinality(posts) + 1
  /\ files = <<>>
  /\ contacts = {}
  /\ nextContactId = 1
  /\ reqs = NoRequests
  /\ resp = NoResponse
  /\ AdminInit
  /\ ParseInit

\* the first create request, with any title
CreateWithTitle == resp = NoResponse /\ CreatePost(AllTitles)

NextSlug == CreateWithTitle

SpecSlug == InitSlug /\ [][NextSlug]_vars

\* the elements of s at the positions I, in order
AtPositions(s, I) ==
  [k \in 1..Cardinality(I) |->
     s[CHOOSE i \in I : Cardinality({j \in I : j < i}) = k - 1]]

\* the title lower-cased
Described1(t) == [i \in 1..Len(t) |-> ToLowerChar(t[i])]

\* ... without the characters that are no word character, white space or hyphen
Described2(t) ==
  LET s == Described1(t)
  IN  AtPositions(s, {i \in 1..Len(s) :
                        IsWordChar(s[i]) \/ IsSpaceChar(s[i]) \/ s[i] = "-"})

\* ... with each run of white space replaced by one hyphen
Described3(t) ==
  LET s == Described2(t)
      u == [i \in 1..Len(s) |-> IF IsSpaceChar(s[i]) THEN "-" ELSE s[i]]
  IN  AtPositions(u, {i \in 1..Len(s) :
                        ~(IsSpaceChar(s[i]) /\ i > 1 /\ IsSpaceChar(s[i - 1]))})

\* ... with each run of hyphens collapsed to one hyphen
DescribedSlug(t) ==
  LET s == Described3(t)
  IN  AtPositions(s, {i \in 1..Len(s) :
                        ~(s[i] = "-" /\ i > 1 /\ s[i - 1] = "-")})

\* C4: a create request without a slug stores the post under the title
\* lower-cased, stripped of the characters that are no word character, white
\* space or hyphen, with each run of white space replaced by one hyphen and
\* each run of hyphens collapsed to one; it is refused only when that slug
\* is already stored.
C4_SlugDerivedFromTitle ==
  [][(resp'.op = "createPost" /\ resp'.derived)
     => /\ resp'.slug = DescribedSlug(resp'.title)
        /\ resp'.status \in {200, 400}
        /\ resp'.status = 200
             => /\ posts' = posts \cup
                     {[id |-> resp'.id, slug |-> DescribedSlug(resp'.title),
                       title |-> resp'.title, viewCount |-> 0,
                       status |-> <<"published">>]}
                /\ resp'.id \notin {p.id : p \in posts}
        /\ resp'.status = 400
             => \E p \in posts : p.slug = DescribedSlug(resp'.title)]_vars

\* a post was stored under a slug whose derivation took every step: a
\* capital, a stripped character, white space and a run of hyphens
C4_Witness ==
  /\ resp.op = "createPost"
  /\ resp.derived
  /\ resp.status = 200
  /\ resp.title = <<"A", "!", " ">>
  /\ \E p \in posts : p.id = resp.id /\ p.slug = <<"a", "-">>

\* C23: the slug derived from a non-empty title that create-post stores is
\* non-empty, has only lower-case letters, digits, underscores and hyphens,
\* no two adjacent hyphens and no white space.
C23_DerivedSlugUrlSafe ==
  [][(/\ resp'.op = "createPost"
      /\ resp'.derived
      /\ resp'.status = 200
      /\ resp'.title # NoString)
     => /\ resp'.slug # NoString
        /\ \A k \in 1..Len(resp'.slug) :
             resp'.slug[k] \in {"a", "b", "c", "d", "z", "0", "1", "_", "-"}
        /\ \A k \in 1..(Len(resp'.slug) - 1) :
             ~(resp'.slug[k] = "-" /\ resp'.slug[k + 1] = "-")]_vars

\* the same, for the stored slugs that are not empty
DerivedSlugCharsUrlSafe ==
  [][(/\ resp'.op = "createPost"
      /\ resp'.derived
      /\ resp'.status = 200
      /\ resp'.slug # NoString)
     => /\ \A k \in 1..Len(resp'.slug) :
             resp'.slug[k] \in {"a", "b", "c", "d", "z", "0", "1", "_", "-"}
        /\ \A k \in 1..(Len(resp'.slug) - 1) :
             ~(resp'.slug[k] = "-" /\ resp'.slug[k + 1] = "-")]_vars

(***************************************************************************)
(* Create requests interleaved at their awaits: SpecRace                   *)
(***************************************************************************)
Requests == 1..MaxReqs

\* up to "const existingPost = await storage.getPostBySlug(postData.slug)"
\* and the test of its result
CreateCheck(r) ==
  /\ reqs[r].pc = "idle"
  /\ \/ \* insertPostSchema.parse throws a ZodError
        reqs' = [reqs EXCEPT ![r].pc = "done", ![r].status = 400]
     \/ \E title \in Titles, given \in GivenSlugs :
          LET slug == SlugOfBody(title, given) IN
          reqs' = [reqs EXCEPT
                     ![r].slug = slug,
                     ![r].title = title,
                     ![r].pc = IF SlugTaken(posts, slug) THEN "done"
                               ELSE "checked",
                     ![r].status = IF SlugTaken(posts, slug) THEN 400 ELSE 0]
  /\ UNCHANGED <<postVars, contactVars, resp, adminVars, parseVars>>

\* storage.createPost up to "await db.insert(posts).values(insertPost)"
CreateInsert(r) ==
  /\ reqs[r].pc = "checked"
  /\ nextPostId <= MaxPostId
  /\ IF ViolatesUnique(posts, nextPostId, reqs[r].slug)
     THEN /\ reqs' = [reqs EXCEPT ![r].pc = "done", ![r].status = 500]
          /\ UNCHANGED postVars
     ELSE /\ posts' = InsertRow(posts, NewRow(nextPostId, reqs[r].slug,
                                               reqs[r].title))
          /\ nextPostId' = nextPostId + 1
          /\ reqs' = [reqs EXCEPT ![r].pc = "inserted", ![r].id = nextPostId]
          /\ UNCHANGED files
  /\ UNCHANGED <<contactVars, resp, adminVars, parseVars>>

\* "await this.savePostToFile(post)" and res.json(post)
CreateSave(r) ==
  /\ reqs[r].pc = "inserted"
  /\ files' = WriteFile(files, NewRow(reqs[r].id, reqs[r].slug, reqs[r].title))
  /\ reqs' = [reqs EXCEPT ![r].pc = "done", ![r].status = 200]
  /\ UNCHANGED <<posts, nextPostId, contactVars, resp, adminVars, parseVars>>

NextRace ==
  \E r \in Requests : CreateCheck(r) \/ CreateInsert(r) \/ CreateSave(r)

SpecRace == Init /\ [][NextRace]_vars

\* request r found no post with its slug
PassedCheck(r) ==
  \/ reqs[r].pc \in {"checked", "inserted"}
  \/ reqs[r].pc = "done" /\ reqs[r].status # 400

\* C3: two create requests with the same slug whose checks both ran before
\* either insert both succeed, and two rows with that slug are stored.
C3_RaceStoresTwoRows ==
  \A r1, r2 \in Requests :
    (/\ r1 # r2
     /\ PassedCheck(r1)
     /\ PassedCheck(r2)
     /\ reqs[r1].slug = reqs[r2].slug)
    => /\ reqs[r1].pc = "done" => reqs[r1].status = 200
       /\ (reqs[r1].pc = "done" /\ reqs[r2].pc = "done")
            => /\ reqs[r1].id # reqs[r2].id
               /\ \A r \in {r1, r2} :
                    \E p \in posts : p.id = reqs[r].id /\ p.slug = reqs[r].slug

\* both racing requests have been answered 200 and two rows share the slug
C3_Witness ==
  \E r1, r2 \in Requests :
    /\ r1 # r2
    /\ reqs[r1].pc = "done" /\ reqs[r1].status = 200
    /\ reqs[r2].pc = "done" /\ reqs[r2].status = 200
    /\ reqs[r1].slug = reqs[r2].slug
    /\ Cardinality({p \in posts : p.slug = reqs[r1].slug}) = 2

(***************************************************************************)
(* The contacts table and the contact routes                               *)
(***************************************************************************)
\* a test that asks only for an "@" between two non-empty parts
EmailRegexNoDot(e) ==
  \E i \in 1..Len(e) :
    /\ e[i] = "@"
    /\ 1 < i /\ i < Len(e)
    /\ \A k \in (1..Len(e)) \ {i} : ~IsSpaceChar(e[k]) /\ e[k] # "@"

\* /^[^\s@]+@[^\s@]+\.[^\s@]+$/.test(email)
EmailRegexTest(e) ==
  \E i, j \in 1..Len(e) :
    /\ e[i] = "@"
    /\ e[j] = "."
    /\ 1 < i /\ i + 1 < j /\ j < Len(e)
    /\ \A k \in (1..Len(e)) \ {i} : ~IsSpaceChar(e[k]) /\ e[k] # "@"

\* the row db.insert(contacts).values(insertContact).returning() yields: the
\* next serial id and the status a new contact starts with
NewContact(id, form) ==
  [id |-> id, name |-> Trim(form.name),
   email |-> ToLowerCase(Trim(form.email)), subject |-> Trim(form.subject),
   message |-> Trim(form.message), status |-> "unread"]

\* an update that flips the status
MarkContactToggled(rows, id) ==
  {IF c.id = id
   THEN [c EXCEPT !.status = IF @ = "read" THEN "unread" ELSE "read"]
   ELSE c : c \in rows}

\* an update that sets more than the status
MarkContactOverwriting(rows, id) ==
  {IF c.id = id THEN [c EXCEPT !.status = "read", !.message = NoString] ELSE c :
     c \in rows}

\* db.update(contacts).set({ status: "read" }).where(eq(contacts.id, id))
MarkContactAsRead(rows, id) ==
  {IF c.id = id THEN [c EXCEPT !.status = "read"] ELSE c : c \in rows}

\* db.delete(contacts).where(eq(contacts.id, id))
DeleteContactRows(rows, id) == {c \in rows : c.id # id}

ContactResponse(op, status, error, id, email) ==
  [Response(op, status, error, id, NoString, NoString) EXCEPT !.email = email]

\* POST /api/contact
SubmitContact(forms) ==
  /\ \E form \in forms :
       IF \/ form.name = NoString \/ form.email = NoString
          \/ form.subject = NoString \/ form.message = NoString
       THEN /\ resp' = ContactResponse("submitContact", 400,
                                       "All fields are required", 0, form.email)
            /\ UNCHANGED contactVars
       ELSE IF ~EmailRegexTest(form.email)
       THEN /\ resp' = ContactResponse("submitContact", 400,
                                       "Invalid email format", 0, form.email)
            /\ UNCHANGED contactVars
       ELSE /\ nextContactId <= MaxContactId
            /\ contacts' = contacts \cup {NewContact(nextContactId, form)}
            /\ nextContactId' = nextContactId + 1
            /\ resp' = ContactResponse("submitContact", 200, "", nextContactId,
                                       form.email)
  /\ UNCHANGED <<postVars, reqs, adminVars, parseVars>>

ContactIds == 1..(MaxContactId + 1)

\* PATCH /api/admin/contacts/:id/read
MarkRead ==
  /\ \E id \in ContactIds :
       /\ contacts' = MarkContactAsRead(contacts, id)
       /\ resp' = ContactResponse("markRead", 200, "", id, NoString)
  /\ UNCHANGED <<nextContactId, postVars, reqs, adminVars, parseVars>>

\* DELETE /api/admin/contacts/:id
DeleteContact ==
  /\ \E id \in ContactIds, counted \in BOOLEAN :
       \* counted: the driver's result carries a rowCount; without one
       \* "result.rowCount > 0" is false whatever was deleted
       /\ contacts' = DeleteContactRows(contacts, id)
       /\ resp' = IF counted /\ contacts' # contacts
                  THEN ContactResponse("deleteContact", 200, "", id, NoString)
                  ELSE ContactResponse("deleteContact", 404,
                                       "Contact not found", id, NoString)
  /\ UNCHANGED <<nextContactId, postVars, reqs, adminVars, parseVars>>

Form(name, email, subject, message) ==
  [name |-> name, email |-> email, subject |-> subject, message |-> message]

\* the forms submitted under SpecContact
Forms ==
  {Form(<<"x">>, <<"a", "@", "b", ".", "c">>, <<"x">>, <<"x">>),
   Form(<<" ", "y">>, <<"A", "@", "b", ".", "c">>, <<"y", " ">>, <<"y">>),
   Form(<<"x">>, <<"a", "@", "b", "c">>, <<"x">>, <<"x">>),
   Form(<<"x">>, <<"a", "@", "b", ".", "c">>, NoString, <<"x">>),
   Form(<<" ">>, <<"a", "@", "b", ".", "c">>, <<"x">>, <<"\t", " ">>)}

NextContact ==
  \/ SubmitContact(Forms)
  \/ MarkRead
  \/ DeleteContact

SpecContact == Init /\ [][NextContact]_vars

\* C9: marking a stored contact read leaves its status "read", and a further
\* call changes no stored contact.
C9_MarkReadIdempotent ==
  [][(resp'.op = "markRead" /\ \E c \in contacts : c.id = resp'.id)
     => \A c \in contacts :
          /\ c.id = resp'.id => [c EXCEPT !.status = "read"] \in contacts'
          /\ c.id # resp'.id => c \in contacts'
          /\ (c.id = resp'.id /\ c.status = "read") => contacts' = contacts]_vars

\* a contact that was already read has been marked read again
C9_Witness ==
  /\ resp.op = "markRead"
  /\ Cardinality(contacts) = 2
  /\ \E c \in contacts : c.id = resp.id /\ c.status = "read"
  /\ \E c \in contacts : c.id # resp.id /\ c.status = "unread"

\* C10: a contact is created with status "unread"; afterwards only its
\* status changes, only from "unread" to "read" and only by mark-as-read of
\* that contact; its name, email, subject and message stay as submitted
\* until it is deleted, and it is deleted only by delete-contact of its id.
C10_ContactLifecycle ==
  [][/\ \A d \in contacts' :
          (\A c \in contacts : c.id # d.id)
          => (d.status = "unread" /\ resp'.op = "submitContact"
              /\ resp'.id = d.id)
     /\ \A c \in contacts :
          /\ \A d \in contacts' :
               d.id = c.id
               => /\ d.name = c.name /\ d.email = c.email
                  /\ d.subject = c.subject /\ d.message = c.message
                  /\ d.status # c.status
                       => /\ c.status = "unread" /\ d.status = "read"
                          /\ resp'.op = "markRead" /\ resp'.id = c.id
          /\ (\A d \in contacts' : d.id # c.id)
               => (resp'.op = "deleteContact" /\ resp'.id = c.id)]_vars

\* a contact has gone from "unread" to "read" while another is stored
C10_Witness ==
  /\ resp.op = "markRead"
  /\ \E c \in contacts : c.id = resp.id /\ c.status = "read"
                         /\ c.name = <<"y">> /\ c.email = <<"a", "@", "b", ".", "c">>
  /\ \E c \in contacts : c.id # resp.id

\* C16: a request that addresses a post or contact that does not exist
\* (GET post by slug, PUT post by id, PATCH contact read, DELETE contact) is
\* answered 404 and changes no stored post, contact, view count or file.
C16_NotFoundIs404 ==
  [][(\/ /\ resp'.op = "getPost"
         /\ RowsBySlug(posts, resp'.slug) = {}
      \/ /\ resp'.op = "updatePost"
         /\ resp'.wellFormed
         /\ RowsById(posts, resp'.id) = {}
      \/ /\ resp'.op \in {"markRead", "deleteContact"}
         /\ \A c \in contacts : c.id # resp'.id)
     => /\ resp'.status = 404
        /\ UNCHANGED <<postVars, contactVars>>]_vars

\* e is local@domain.tld: one "@", text before it, and after it text, a
\* dot and text
IsLocalAtDomainTld(e) ==
  \E i \in 2..Len(e) :
    /\ e[i] = "@"
    /\ \A k \in 1..Len(e) : k # i => e[k] # "@"
    /\ \E d \in (i + 2)..(Len(e) - 1) : e[d] = "."

\* C29: every stored contact has a non-empty name, subject and message with
\* no white space at either end and a lower-case email of the form
\* local@domain.tld (so no submission with a blank field was stored).
C29_StoredContactsWellFormed ==
  \A c \in contacts :
    /\ \A f \in {c.name, c.subject, c.message} : f # NoString /\ Trim(f) = f
    /\ c.email = ToLowerCase(c.email)
    /\ IsLocalAtDomainTld(c.email)

(***************************************************************************)
(* The e-mail test over all short addresses: SpecEmail                     *)
(***************************************************************************)
EmailChars == {"a", "B", "@", ".", " "}

AllEmails == StringsUpTo(EmailChars, MaxEmailLen)

\* the first submission, with any address
SubmitWithEmail ==
  /\ resp = NoResponse
  /\ AdminInit
  /\ ParseInit
  /\ SubmitContact({Form(<<"x">>, e, <<"x">>, <<"x">>) : e \in AllEmails})

NextEmail == SubmitWithEmail

SpecEmail == Init /\ [][NextEmail]_vars

HasNoAt(e) == \A k \in 1..Len(e) : e[k] # "@"

\* no dot in the part after the last "@"
HasNoDotAfterAt(e) ==
  \E i \in 1..Len(e) :
    /\ e[i] = "@"
    /\ \A k \in (i + 1)..Len(e) : e[k] # "." /\ e[k] # "@"

\* C8: a submission whose email has no "@", or no dot after the "@", is
\* answered 400 and stores no contact.
C8_MalformedEmailRejected ==
  [][(/\ resp'.op = "submitContact"
      /\ HasNoAt(resp'.email) \/ HasNoDotAfterAt(resp'.email))
     => (resp'.status = 400 /\ contacts' = contacts)]_vars

\* an address with an "@" and no dot after it was refused by the format test
C8_Witness ==
  /\ resp.op = "submitContact"
  /\ resp.status = 400
  /\ resp.error = "Invalid email format"
  /\ resp.email = <<"a", ".", "a", "@", "a">>
  /\ contacts = {}

(***************************************************************************)
(* Admin login and the admin routes as any client can call them: SpecAdmin *)
(***************************************************************************)
FallbackPassword == "admin123"

\* a secret that never reads the environment
AdminPasswordIgnoringEnv(env) == FallbackPassword

\* ADMIN_PASSWORD = process.env.ADMIN_PASSWORD || "admin123": an unset and an
\* empty variable are both falsy
AdminPassword(env) ==
  IF env.set /\ env.value # "" THEN env.value ELSE FallbackPassword

\* what ADMIN_PASSWORD the server is started with
EnvValues ==
  {NoEnv, [set |-> TRUE, value |-> ""], [set |-> TRUE, value |-> "s3cret"]}

\* req.body.password: absent, not a string, or a string
LoginPasswords ==
  {[kind |-> "missing", text |-> ""], [kind |-> "number", text |-> ""]}
    \cup {[kind |-> "string", text |-> t] :
            t \in {"", "admin123", "s3cret", "S3cret"}}

LoginResponse(status, error, pw) ==
  [Response("login", status, error, 0, NoString, NoString)
     EXCEPT !.password = pw]

\* POST /api/admin/login, and the onSuccess of the client that sent it
Login ==
  /\ \E pw \in LoginPasswords :
       IF pw.kind # "string"
       THEN /\ resp' = LoginResponse(400, "Invalid request", pw)
            /\ UNCHANGED loggedIn
       ELSE IF pw.text = AdminPassword(adminEnv)
       THEN /\ resp' = LoginResponse(200, "", pw)
            /\ loggedIn' = loggedIn \cup {client}
       ELSE /\ resp' = LoginResponse(401, "Invalid password", pw)
            /\ UNCHANGED loggedIn
  /\ UNCHANGED <<postVars, contactVars, reqs, adminEnv, client, parseVars>>

\* the Admin page, and any other program that speaks HTTP
Clients == {"page", "other"}

\* the next request comes from client c
Connect ==
  /\ \E c \in Clients : client' = c
  /\ UNCHANGED <<postVars, contactVars, reqs, resp, adminEnv, loggedIn,
                 parseVars>>

\* the Admin page shows its login form, and sends no admin request, until a
\* login succeeded
PageGate == client = "page" => client \in loggedIn

\* GET /api/admin/contacts
ListContacts ==
  /\ resp' = ContactResponse("listContacts", 200, "", 0, NoString)
  /\ UNCHANGED <<postVars, contactVars, reqs, adminVars, parseVars>>

GatedMarkRead == PageGate /\ MarkRead
GatedDeleteContact == PageGate /\ DeleteContact
GatedListContacts == PageGate /\ ListContacts

InitAdmin ==
  /\ posts = {}
  /\ nextPostId = 1
  /\ files = <<>>
  /\ contacts = {}
  /\ nextContactId = 1
  /\ reqs = NoRequests
  /\ resp = NoResponse
  /\ adminEnv \in EnvValues
  /\ client = "page"
  /\ loggedIn = {}
  /\ ParseInit

NextAdmin ==
  \/ Connect
  \/ Login
  \/ SubmitContact(Forms)
  \/ GatedMarkRead
  \/ GatedDeleteContact
  \/ GatedListContacts

SpecAdmin == InitAdmin /\ [][NextAdmin]_vars

\* C18: a login is answered with success exactly when the submitted password
\* is a string equal to the configured secret (the environment's value, the
\* fallback literal when the environment gives none), with 401 for every
\* other string and 400 for a missing or non-string password, and it changes
\* no stored post, file or contact.
C18_LoginComparesSecret ==
  [][resp'.op = "login"
     => LET pw == resp'.password
            secret == IF adminEnv.set /\ adminEnv.value # ""
                      THEN adminEnv.value
                      ELSE "admin123"
        IN  /\ resp'.status = 200 <=> (pw.kind = "string" /\ pw.text = secret)
            /\ resp'.status = 401 <=> (pw.kind = "string" /\ pw.text # secret)
            /\ resp'.status = 400 <=> pw.kind # "string"
            /\ UNCHANGED <<postVars, contactVars, adminEnv>>]_vars

\* with a secret in the environment and a contact stored, the fallback
\* literal was refused
C18_Witness ==
  /\ resp.op = "login"
  /\ resp.status = 401
  /\ resp.password.text = "admin123"
  /\ adminEnv.set
  /\ contacts # {}

\* C20: an admin route changes or reveals data only for a client that has
\* completed a successful login: to a client that never logged in the
\* contact list is not given, and its request changes no stored post or
\* contact.
C20_AdminRoutesNeedLogin ==
  [][(/\ resp'.op \in {"createPost", "updatePost", "deletePost", "markRead",
                      "deleteContact", "listContacts"}
      /\ client \notin loggedIn)
     => /\ resp'.op = "listContacts" => resp'.status # 200
        /\ UNCHANGED <<postVars, contactVars>>]_vars

(***************************************************************************)
(* The frontmatter parsers.  A file's text is the sequence of its lines    *)
(* (the text split at "\n"); a line is a sequence of characters, in which  *)
(* a key word (title, tags, ...) and a default value count as one          *)
(* character.                                                              *)
(***************************************************************************)
Delimiter == <<"-", "-", "-">>

RECURSIVE Join(_)
\* lines.join('\n'): the text of the lines as one sequence of characters
Join(ls) ==
  IF ls = <<>> THEN <<>>
  ELSE IF Len(ls) = 1 THEN ls[1]
  ELSE ls[1] \o <<"\n">> \o Join(Tail(ls))

\* the characters of t before its first c
Before(t, c) ==
  IF \E k \in 1..Len(t) : t[k] = c
  THEN SubSeq(t, 1, (CHOOSE k \in 1..Len(t) :
                       t[k] = c /\ \A j \in 1..(k - 1) : t[j] # c) - 1)
  ELSE t

\* the characters of t after its first c; nothing when t has no c
After(t, c) ==
  IF \E k \in 1..Len(t) : t[k] = c
  THEN SubSeq(t, (CHOOSE k \in 1..Len(t) :
                    t[k] = c /\ \A j \in 1..(k - 1) : t[j] # c) + 1, Len(t))
  ELSE <<>>

RECURSIVE Split(_, _)
\* String.prototype.split(c)
Split(t, c) ==
  IF \E k \in 1..Len(t) : t[k] = c
  THEN <<Before(t, c)>> \o Split(After(t, c), c)
  ELSE <<t>>

\* .map(tag => tag.trim())
TrimAll(ts) == [k \in 1..Len(ts) |-> Trim(ts[k])]

\* the result of a parse
Parsed(title, excerpt, readTime, category, tags, status, markdown) ==
  [title |-> title, excerpt |-> excerpt, readTime |-> readTime,
   category |-> category, tags |-> tags, status |-> status,
   markdown |-> markdown]

\* the frontmatter pattern without its ^ anchor on the first line
ClosingLineUnanchored(ls) ==
  IF \E e \in 3..(Len(ls) - 1) : ls[e] = Delimiter
  THEN CHOOSE e \in 3..(Len(ls) - 1) :
         ls[e] = Delimiter /\ \A j \in 3..(e - 1) : ls[j] # Delimiter
  ELSE 0

\* /^---\n([\s\S]*?)\n---\n([\s\S]*)$/: the first line is the delimiter, the
\* header (lazy) ends before the first later "\n---\n"; 0 when no match
ClosingLine(ls) ==
  IF /\ Len(ls) >= 4
     /\ ls[1] = Delimiter
     /\ \E e \in 3..(Len(ls) - 1) : ls[e] = Delimiter
  THEN CHOOSE e \in 3..(Len(ls) - 1) :
         ls[e] = Delimiter /\ \A j \in 3..(e - 1) : ls[j] # Delimiter
  ELSE 0

\* parseValue: new RegExp(`^${key}:\\s*(.*)$`, 'm') on the header: the first
\* line that starts with "key:"; \s* runs over white space, line ends
\* included; (.*) is the rest of the line reached
ParseValue(fm, key, default) ==
  LET Starts(k) == Len(fm[k]) >= 2 /\ SubSeq(fm[k], 1, 2) = <<key, ":">>
  IN  IF \E k \in 1..Len(fm) : Starts(k)
      THEN LET k == CHOOSE k \in 1..Len(fm) :
                      Starts(k) /\ \A j \in 1..(k - 1) : ~Starts(j)
               rest == Join(<<SubSeq(fm[k], 3, Len(fm[k]))>>
                              \o SubSeq(fm, k + 1, Len(fm)))
           IN  Trim(Before(DropLeading(rest, {" ", "\t", "\n"}), "\n"))
      ELSE default

\* DatabaseStorage.parseMarkdownFile
DbParseMarkdownFile(ls) ==
  LET e == ClosingLine(ls) IN
  IF e = 0
  THEN Parsed(<<"Untitled">>, <<"No excerpt available">>, <<"5 min read">>,
              <<"General">>, <<>>, <<"published">>, ls)
  ELSE LET fm == SubSeq(ls, 2, e - 1)
           tagsStr == ParseValue(fm, "tags", <<>>)
       IN  Parsed(ParseValue(fm, "title", <<"Untitled">>),
                  ParseValue(fm, "excerpt", <<"No excerpt available">>),
                  ParseValue(fm, "readTime", <<"5 min read">>),
                  ParseValue(fm, "category", <<"General">>),
                  IF tagsStr = <<>> THEN <<>> ELSE TrimAll(Split(tagsStr, ",")),
                  ParseValue(fm, "status", <<"published">>),
                  SubSeq(ls, e + 1, Len(ls)))

ExcerptLen == 150

\* lines.findIndex((line, index) => index > 0 && line === '---'), counted
\* from 1; 0 when the first line is no delimiter or no later one is
MemClosingLine(ls) ==
  IF ls[1] = Delimiter /\ \E e \in 2..Len(ls) : ls[e] = Delimiter
  THEN CHOOSE e \in 2..Len(ls) :
         ls[e] = Delimiter /\ \A j \in 2..(e - 1) : ls[j] # Delimiter
  ELSE 0

\* one round of frontmatter.forEach: [key, ...valueParts] = line.split(':'),
\* value = valueParts.join(':').trim(), switch (key.trim())
MemSetField(acc, line) ==
  LET key == Trim(Before(line, ":"))
      value == Trim(After(line, ":"))
  IN  IF key = <<"title">> THEN [acc EXCEPT !.title = value]
      ELSE IF key = <<"excerpt">> THEN [acc EXCEPT !.excerpt = value]
      ELSE IF key = <<"readTime">> THEN [acc EXCEPT !.readTime = value]
      ELSE IF key = <<"category">> THEN [acc EXCEPT !.category = value]
      ELSE IF key = <<"tags">>
      THEN [acc EXCEPT !.tags =
              SelectSeq(TrimAll(Split(value, ",")), LAMBDA t : t # <<>>)]
      ELSE IF key = <<"status">> THEN [acc EXCEPT !.status = value]
      ELSE acc

RECURSIVE MemSetFields(_, _)
\* frontmatter.forEach, first line first
MemSetFields(acc, fm) ==
  IF fm = <<>> THEN acc
  ELSE MemSetFields(MemSetField(acc, Head(fm)), Tail(fm))

\* firstParagraph.substring(0, 150) + '...' of the first line of the body
\* that is not blank; '' when every line is blank
MemExcerpt(body) ==
  IF \E k \in 1..Len(body) : Trim(body[k]) # <<>>
  THEN LET k == CHOOSE k \in 1..Len(body) :
                  Trim(body[k]) # <<>> /\ \A j \in 1..(k - 1) : Trim(body[j]) = <<>>
           n == IF Len(body[k]) < ExcerptLen THEN Len(body[k]) ELSE ExcerptLen
       IN  SubSeq(body[k], 1, n) \o <<".", ".", ".">>
  ELSE <<>>

\* MemStorage.parseMarkdownFile
MemParseMarkdownFile(ls) ==
  LET e == MemClosingLine(ls)
      start == Parsed(<<"Untitled">>, <<>>, <<"5 min read">>, <<"General">>,
                      <<>>, <<"published">>, ls)
      body == IF e = Len(ls) THEN <<<<>>>> ELSE SubSeq(ls, e + 1, Len(ls))
      set == IF e = 0 THEN start
             ELSE MemSetFields([start EXCEPT !.markdown = body],
                               SubSeq(ls, 2, e - 1))
  IN  IF set.excerpt = <<>>
      THEN [set EXCEPT !.excerpt = MemExcerpt(set.markdown)]
      ELSE set

(***************************************************************************)
(* Both parsers over all short files: SpecParse                            *)
(***************************************************************************)
MaxFileLines == 5

\* the lines the files are made of
ParseLines ==
  {Delimiter, <<>>, <<"y">>,
   <<"title", ":", " ", "x", ":", "y">>,
   <<"title", ":">>,
   <<"tags", ":", "x", ",", ",", "y">>,
   <<"excerpt", ":", " ", "x">>,
   <<"other", ":", " ", "x">>}

FileTexts == UNION {[1..n -> ParseLines] : n \in 1..MaxFileLines}

InitParse ==
  /\ posts = {}
  /\ nextPostId = 1
  /\ files = <<>>
  /\ contacts = {}
  /\ nextContactId = 1
  /\ reqs = NoRequests
  /\ resp = NoResponse
  /\ AdminInit
  /\ content \in FileTexts
  /\ parsed = NoParse

\* both parsers are given the file's text
ParseFile ==
  /\ ~parsed.done
  /\ parsed' = [done |-> TRUE, db |-> DbParseMarkdownFile(content),
                mem |-> MemParseMarkdownFile(content)]
  /\ UNCHANGED <<postVars, contactVars, reqs, resp, adminVars, content>>

NextParse == ParseFile

SpecParse == InitParse /\ [][NextParse]_vars

\* the default metadata, with the whole text as the body
HasDefaults(r, text) ==
  /\ r.title = <<"Untitled">>
  /\ r.readTime = <<"5 min read">>
  /\ r.category = <<"General">>
  /\ r.tags = <<>>
  /\ r.status = <<"published">>
  /\ r.markdown = text

\* C13: for a text whose first line is not the "---" delimiter, each parser
\* returns the whole text as the body with the default title, readTime,
\* category, tags (none) and status.
C13_NoHeaderGivesDefaults ==
  (parsed.done /\ content[1] # Delimiter)
    => (HasDefaults(parsed.db, content) /\ HasDefaults(parsed.mem, content))

\* a text with key lines and a later pair of delimiters, but another first
\* line, was parsed
C13_Witness ==
  /\ parsed.done
  /\ content = <<<<"y">>, <<"title", ":", " ", "x", ":", "y">>, Delimiter,
                 <<"y">>, Delimiter>>

\* the text starts with a delimiter line and has a later one
HasHeader(ls) == ls[1] = Delimiter /\ \E e \in 2..Len(ls) : ls[e] = Delimiter

\* the closing delimiter: the first delimiter line after the first line
HeaderEnd(ls) ==
  CHOOSE e \in 2..Len(ls) :
    ls[e] = Delimiter /\ \A j \in 2..(e - 1) : ls[j] # Delimiter

\* line is "key: ..."
LineHasKey(line, key) ==
  (\E k \in 1..Len(line) : line[k] = ":") /\ Trim(Before(line, ":")) = <<key>>

\* the header lines of ls with the key
KeyLines(ls, key) ==
  {k \in 2..(HeaderEnd(ls) - 1) : LineHasKey(ls[k], key)}

NonEmpty(ts) == SelectSeq(ts, LAMBDA t : t # <<>>)

\* r is what the claim describes for the text ls
HeaderFieldsOf(r, ls) ==
  /\ \A key \in {"title", "excerpt", "readTime", "category", "status"} :
       \A k \in KeyLines(ls, key) :
         KeyLines(ls, key) = {k} => r[key] = Trim(After(ls[k], ":"))
  /\ \A k \in KeyLines(ls, "tags") :
       KeyLines(ls, "tags") = {k}
         => NonEmpty(r.tags) = NonEmpty(TrimAll(Split(After(ls[k], ":"), ",")))
  /\ Join(r.markdown) = Join(SubSeq(ls, HeaderEnd(ls) + 1, Len(ls)))

\* C14: for a text with a leading "---"-delimited header, each parser sets
\* title, excerpt, readTime, category and status to the text after the first
\* ":" of the one header line with that key (white space around it dropped),
\* sets tags to the comma-separated items of the tags line, and returns the
\* text after the closing delimiter as the body.
C14_HeaderFieldsParsed ==
  (parsed.done /\ HasHeader(content))
    => (HeaderFieldsOf(parsed.db, content) /\ HeaderFieldsOf(parsed.mem, content))

\* the same for MemStorage's parser alone
MemHeaderFieldsParsed ==
  (parsed.done /\ HasHeader(content)) => HeaderFieldsOf(parsed.mem, content)

\* the file gives no excerpt: it has no header, or no header line with the
\* key excerpt
GivesNoExcerpt(ls) == HasHeader(ls) => KeyLines(ls, "excerpt") = {}

\* e is the first line of body that is not blank, cut to 150 characters and
\* followed by an ellipsis
IsFallbackExcerpt(e, body) ==
  \E k \in 1..Len(body) :
    /\ Trim(body[k]) # <<>>
    /\ \A j \in 1..(k - 1) : Trim(body[j]) = <<>>
    /\ \E n \in 0..150 :
         /\ n = Len(body[k]) \/ (n = 150 /\ Len(body[k]) > 150)
         /\ e = SubSeq(body[k], 1, n) \o <<".", ".", ".">>

\* C15: when the file gives no excerpt and its body has a line that is not
\* blank, the excerpt each parser returns is the first such line of the body
\* it returns, cut to its first 150 characters and followed by an ellipsis.
C15_ExcerptFallsBackToBody ==
  \A r \in {parsed.db, parsed.mem} :
    (/\ parsed.done
     /\ GivesNoExcerpt(content)
     /\ \E k \in 1..Len(r.markdown) : Trim(r.markdown[k]) # <<>>)
      => IsFallbackExcerpt(r.excerpt, r.markdown)

\* the same for MemStorage's parser alone
MemExcerptFallsBackToBody ==
  (/\ parsed.done
   /\ GivesNoExcerpt(content)
   /\ \E k \in 1..Len(parsed.mem.markdown) : Trim(parsed.mem.markdown[k]) # <<>>)
    => IsFallbackExcerpt(parsed.mem.excerpt, parsed.mem.markdown)

\* C19 (parsers): MemStorage's and DatabaseStorage's parser return the same
\* result for the same text.
C19_ParsersAgree == parsed.done => parsed.db = parsed.mem

(***************************************************************************)
(* Boot import of the posts directory: SpecBoot.  The directory is the     *)
(* function files: its domain holds each file's name less the final        *)
(* ".md", as savePostToFile forms the name from the slug.                  *)
(***************************************************************************)
DotMd == <<".", "m", "d">>

\* `${post.slug}.md`
FileName(slug) == slug \o DotMd

\* String.prototype.replace(pat, ''): the first occurrence of pat is removed
RemoveFirst(t, pat) ==
  LET At(k) == k + Len(pat) - 1 <= Len(t) /\ SubSeq(t, k, k + Len(pat) - 1) = pat
  IN  IF \E k \in 1..Len(t) : At(k)
      THEN LET k == CHOOSE k \in 1..Len(t) : At(k) /\ \A j \in 1..(k - 1) : ~At(j)
           IN  SubSeq(t, 1, k - 1) \o SubSeq(t, k + Len(pat), Len(t))
      ELSE t

\* const slug = file.replace('.md', '')
SlugOfFile(name) == RemoveFirst(name, DotMd)

\* the text savePostToFile writes, for the fields the model carries
FileText(f) ==
  <<Delimiter, <<"title", ":", " ">> \o f.title,
    <<"status", ":", " ">> \o f.status, Delimiter, <<>>>>

\* the orders in which readdir can list the files S
Orders(S) ==
  {o \in [1..Cardinality(S) -> S] :
     \A i, j \in 1..Cardinality(S) : i # j => o[i] # o[j]}

\* the values the status column holds
StatusAdmitted(st) == st \in {<<"published">>, <<"draft">>}

\* an insert that stores the row whatever its status
InsertPostRowUnchecked(rows, row) == [ok |-> TRUE, posts |-> InsertRow(rows, row)]

\* await db.insert(posts).values(post): the row is stored, or the statement
\* fails and nothing is
InsertPostRow(rows, row) ==
  IF StatusAdmitted(row.status) /\ ~ViolatesUnique(rows, row.id, row.slug)
  THEN [ok |-> TRUE, posts |-> InsertRow(rows, row)]
  ELSE [ok |-> FALSE, posts |-> rows]

\* the for loop of loadPostsFromFiles: readFile stands before the inner try,
\* so a file that cannot be read ends the loop; the select, the parse and
\* the insert stand inside it, so a failure there skips the file
ImportFiles(rows, nid, fs, order, unreadable, rejected) ==
  LET RECURSIVE Go(_, _, _)
      Go(rs, n, o) ==
        IF o = <<>> THEN [posts |-> rs, nextPostId |-> n]
        ELSE LET slug == SlugOfFile(FileName(Head(o))) IN
             IF Head(o) \in unreadable THEN [posts |-> rs, nextPostId |-> n]
             ELSE IF Head(o) \in rejected \/ RowsBySlug(rs, slug) # {}
             THEN Go(rs, n, Tail(o))
             ELSE LET md == DbParseMarkdownFile(FileText(fs[Head(o)]))
                      post == [NewRow(n, slug, md.title)
                                 EXCEPT !.status = md.status]
                      r == InsertPostRow(rs, post)
                  IN  Go(r.posts, IF r.ok THEN n + 1 ELSE n, Tail(o))
  IN  Go(rows, nid, order)

\* DatabaseStorage.initializeStorage -> loadPostsFromFiles, run to its end
BootImport ==
  /\ \E order \in Orders(DOMAIN files),
        unreadable \in SUBSET DOMAIN files,
        rejected \in SUBSET DOMAIN files :
       \* a file that cannot be read never comes to its insert
       /\ unreadable \cap rejected = {}
       /\ LET r == ImportFiles(posts, nextPostId, files, order, unreadable,
                                rejected)
          IN  /\ posts' = r.posts
              /\ nextPostId' = r.nextPostId
              /\ resp' = [Response("bootImport", 0, "", 0, NoString, NoString)
                            EXCEPT !.boot = [unreadable |-> unreadable,
                                             rejected |-> rejected]]
  /\ UNCHANGED <<files, contactVars, reqs, adminVars, parseVars>>

\* file names of the directory, less the final ".md"
BootKeys == {<<"c">>, <<".", "m", "d", "x">>, <<"x", ".", "m", "d">>}

\* the directories the server can be started on
BootDirs ==
  UNION {[D -> {[title |-> <<"c">>, status |-> <<st>>] :
                  st \in {"draft", "archived"}}] :
           D \in SUBSET BootKeys}

\* the rows an earlier run of the server can have left
BootRows ==
  {[NewRow(1, <<"c">>, <<"x">>) EXCEPT !.viewCount = 1],
   [NewRow(2, <<".", "m", "d", "x">>, <<"x">>) EXCEPT !.status = <<"draft">>],
   NewRow(3, <<"x", ".", "m", "d">>, <<"x">>)}

InitBoot ==
  /\ posts \in SUBSET BootRows
  /\ nextPostId = Cardinality(BootRows) + 1
  /\ files \in BootDirs
  /\ contacts = {}
  /\ nextContactId = 1
  /\ reqs = NoRequests
  /\ resp = NoResponse
  /\ AdminInit
  /\ ParseInit

NextBoot == BootImport

SpecBoot == InitBoot /\ [][NextBoot]_vars

\* the file name without its ".md" ending
NameWithoutMd(name) == SubSeq(name, 1, Len(name) - 3)

\* the files whose row the posts table does not take
Refused == {k \in DOMAIN files : ~StatusAdmitted(files[k].status)}

\* no file failed in the import answered by r
Faultless(r) ==
  /\ r.op = "bootImport"
  /\ r.boot.unreadable = {}
  /\ r.boot.rejected = {}
  /\ Refused = {}

\* C11: an import in which no file fails inserts exactly one row for each
\* file whose slug (the file name without ".md") has no row, inserts none for
\* a file whose slug has one and leaves the stored rows as they are; a second
\* import over the same files adds no row.
C11_ImportInsertsMissingOnce ==
  [][Faultless(resp')
     => /\ posts \subseteq posts'
        /\ \A k \in DOMAIN files :
             LET slug == NameWithoutMd(FileName(k))
                 new == {p \in posts' \ posts : p.slug = slug}
             IN  IF RowsBySlug(posts, slug) = {}
                 THEN Cardinality(new) = 1
                 ELSE new = {}
        /\ Cardinality(posts' \ posts)
             = Cardinality({k \in DOMAIN files :
                              RowsBySlug(posts, NameWithoutMd(FileName(k))) = {}})
        /\ Faultless(resp) => posts' = posts]_vars

\* C12: a file that cannot be read, parsed or inserted is skipped: after the
\* import every other file of the directory has a row with its slug.
C12_ImportSkipsFailedFile ==
  [][resp'.op = "bootImport"
     => \A k \in DOMAIN files \ (resp'.boot.unreadable \cup resp'.boot.rejected
                                   \cup Refused) :
          RowsBySlug(posts', SlugOfFile(FileName(k))) # {}]_vars

(***************************************************************************)
(* Overlapping GET /api/posts/:slug requests, split at their awaits:       *)
(* SpecViews                                                               *)
(***************************************************************************)
\* "const post = await storage.getPostBySlug(slug)" and the test of it
ViewLookup(r) ==
  /\ reqs[r].pc = "idle"
  /\ \E slug \in LookupSlugs :
       reqs' = [reqs EXCEPT
                  ![r].slug = slug,
                  ![r].pc = IF RowsBySlug(posts, slug) = {} THEN "done"
                            ELSE "found",
                  ![r].status = IF RowsBySlug(posts, slug) = {} THEN 404 ELSE 0]
  /\ UNCHANGED <<postVars, contactVars, resp, adminVars, parseVars>>

\* "await storage.incrementViewCount(slug)" and res.json(post)
ViewIncrement(r) ==
  /\ reqs[r].pc = "found"
  /\ \A p \in RowsBySlug(posts, reqs[r].slug) : p.viewCount < MaxViews
  /\ posts' = IncrementViewCount(posts, reqs[r].slug)
  /\ reqs' = [reqs EXCEPT ![r].pc = "done", ![r].status = 200]
  /\ UNCHANGED <<nextPostId, files, contactVars, resp, adminVars, parseVars>>

\* the tables the requests run against, no post viewed yet
ViewedTables ==
  {{NewRow(1, <<"c">>, <<"c">>)},
   {NewRow(1, <<"a", "-", "b">>, <<"A", " ", "b">>)},
   {NewRow(1, <<"c">>, <<"c">>), NewRow(2, <<"a", "-", "b">>, <<"A", " ", "b">>)},
   {NewRow(1, <<"c">>, <<"c">>), NewRow(2, <<"c">>, <<"A", " ", "b">>)}}

InitViews ==
  /\ posts \in ViewedTables
  /\ nextPostId = Cardinality(posts) + 1
  /\ files = <<>>
  /\ contacts = {}
  /\ nextContactId = 1
  /\ reqs = NoRequests
  /\ resp = NoResponse
  /\ AdminInit
  /\ ParseInit

NextViews == \E r \in Requests : ViewLookup(r) \/ ViewIncrement(r)

SpecViews == InitViews /\ [][NextViews]_vars

\* C21: whatever the order in which overlapping fetches of a post take their
\* steps, the post's view count is higher than at the start by the number of
\* fetches of it that have been answered 200; so k fetches raise it by k.
C21_NoViewLost ==
  \A p \in posts :
    p.viewCount
      = Cardinality({r \in Requests :
                       /\ reqs[r].pc = "done"
                       /\ reqs[r].status = 200
                       /\ reqs[r].slug = p.slug})

\* every request fetched the same post and has been answered
C21_Witness ==
  /\ \A r \in Requests :
       reqs[r].pc = "done" /\ reqs[r].status = 200 /\ reqs[r].slug = <<"c">>
  /\ \E p \in posts : p.slug = <<"c">> /\ p.viewCount = MaxReqs

CreatePostWriteFails ==
  /\ \E title \in Titles, given \in GivenSlugs :
       LET slug == SlugOfBody(title, given) IN
       /\ ~SlugTaken(posts, slug)
       /\ nextPostId <= MaxPostId
       /\ ~ViolatesUnique(posts, nextPostId, slug)
       /\ posts' = InsertRow(posts, NewRow(nextPostId, slug, title))
       /\ nextPostId' = nextPostId + 1
       /\ resp' = [Response("createPost", 500, "Failed to create post", 0,
                            slug, title)
                     EXCEPT !.derived = (given = NoString)]
  /\ UNCHANGED <<files, contactVars, reqs, adminVars, parseVars>>

NextFault ==
  \/ CreatePost(Titles)
  \/ CreatePostWriteFails
  \/ UpdatePost
  \/ DeletePost

SpecFault == Init /\ [][NextFault]_vars

\* C27: a create request answered with a 4xx or 5xx status has added no
\* post row.
C27_FailedCreateAddsNoRow ==
  [][resp'.op = "createPost" /\ resp'.status >= 400 => posts' = posts]_vars

(***************************************************************************)
(* A post written by savePostToFile and parsed again: SpecRoundTrip        *)
(***************************************************************************)
RECURSIVE JoinTags(_)
\* post.tags?.join(', ') || ''
JoinTags(ts) ==
  IF ts = <<>> THEN <<>>
  ELSE IF Len(ts) = 1 THEN ts[1]
  ELSE ts[1] \o <<",", " ">> \o JoinTags(Tail(ts))

\* the text savePostToFile writes for a post, as its lines; the content is
\* itself a sequence of lines, "" being the one empty line
SavePostText(p) ==
  <<Delimiter,
    <<"title", ":", " ">> \o p.title,
    <<"excerpt", ":", " ">> \o p.excerpt,
    <<"readTime", ":", " ">> \o p.readTime,
    <<"category", ":", " ">> \o p.category,
    <<"tags", ":", " ">> \o JoinTags(p.tags),
    <<"status", ":", " ">> \o p.status,
    Delimiter,
    <<>>>> \o p.content

\* stored posts with every column the file carries
RoundTripPosts ==
  {[id |-> 1, slug |-> <<"c">>, viewCount |-> 0, title |-> title,
    excerpt |-> excerpt, readTime |-> <<"5 min read">>,
    category |-> <<"General">>, tags |-> tags, status |-> <<status>>,
    content |-> body] :
     title \in {<<"x">>, <<"x", ":", "y">>},
     excerpt \in {<<"x">>, <<>>},
     tags \in {<<>>, <<<<"x">>>>, <<<<"x">>, <<"y">>>>, <<<<"x", " ", "y">>>>},
     status \in {"published", "draft"},
     body \in {<<<<>>>>, <<<<"y">>>>, <<<<"y">>, <<>>, <<"x">>>>}}

InitRoundTrip ==
  /\ posts \in {{p} : p \in RoundTripPosts}
  /\ nextPostId = 2
  /\ files = <<>>
  /\ contacts = {}
  /\ nextContactId = 1
  /\ reqs = NoRequests
  /\ resp = NoResponse
  /\ AdminInit
  /\ ParseInit

\* savePostToFile(post): fs.writeFile(filePath, frontmatter, 'utf-8')
SavePostToFile ==
  /\ content = <<>>
  /\ \E p \in posts : content' = SavePostText(p)
  /\ UNCHANGED <<postVars, contactVars, reqs, resp, adminVars, parsed>>

\* the file written is read back and parsed
ParseSaved ==
  /\ content # <<>>
  /\ ParseFile

NextRoundTrip == SavePostToFile \/ ParseSaved

SpecRoundTrip == InitRoundTrip /\ [][NextRoundTrip]_vars

\* what a parse returns is what the post holds
SameAsPost(r, p) ==
  /\ r.title = p.title
  /\ r.excerpt = p.excerpt
  /\ r.readTime = p.readTime
  /\ r.category = p.category
  /\ r.tags = p.tags
  /\ r.status = p.status
  /\ Join(r.markdown) = Join(p.content)

\* C26: parsing the file savePostToFile wrote for a stored post returns the
\* post's title, excerpt, readTime, category, tags, status and content.
C26_SaveParseRoundTrip ==
  parsed.done => \A p \in posts : SameAsPost(parsed.db, p)

\* the header fields alone come back from DatabaseStorage.parseMarkdownFile
\* when neither the excerpt nor the tag list is empty
HeaderRoundTrip ==
  parsed.done
    => \A p \in posts :
         p.excerpt # <<>> /\ p.tags # <<>>
           => SameAsPost([parsed.db EXCEPT !.markdown = p.content], p)

(***************************************************************************)
(* The public read endpoints: SpecRead                                     *)
(***************************************************************************)
\* .orderBy(desc(posts.createdAt)): the rows S, latest first; rows of one
\* createdAt come in any order
OrderByCreatedAtDesc(S) ==
  {o \in Orders(S) :
     \A i, j \in 1..Cardinality(S) :
       i < j => o[i].createdAt >= o[j].createdAt}

\* t ILIKE '%' + q + '%' for a q without % and _
ILike(t, q) ==
  \E k \in 0..(Len(t) - Len(q)) :
    SubSeq(ToLowerCase(t), k + 1, k + Len(q)) = ToLowerCase(q)

\* DatabaseStorage.getAllPosts
GetAllPosts(rows) == OrderByCreatedAtDesc(rows)

\* DatabaseStorage.searchPosts
SearchPosts(rows, q) ==
  OrderByCreatedAtDesc({p \in rows :
                          /\ ILike(p.title, q) \/ ILike(p.content, q)
                          /\ p.status = <<"published">>})

\* DatabaseStorage.getPostsByTag
GetPostsByTag(rows, tag) ==
  OrderByCreatedAtDesc({p \in rows :
                          /\ \E k \in 1..Len(p.tags) : p.tags[k] = tag
                          /\ p.status = <<"published">>})

\* the search words and tags of the requests
Queries == {<<"a">>, <<"y">>}
TagNames == {<<"x">>, <<"z">>}

ReadResponse(op, rows) ==
  [Response(op, 200, "", 0, NoString, NoString) EXCEPT !.result = rows]

\* GET /api/posts
ListPosts ==
  /\ \E o \in GetAllPosts(posts) : resp' = ReadResponse("listPosts", o)
  /\ UNCHANGED <<postVars, contactVars, reqs, adminVars, parseVars>>

\* GET /api/posts/search/:query
Search ==
  /\ \E q \in Queries :
       \E o \in SearchPosts(posts, q) : resp' = ReadResponse("searchPosts", o)
  /\ UNCHANGED <<postVars, contactVars, reqs, adminVars, parseVars>>

\* GET /api/posts/tag/:tag
PostsByTag ==
  /\ \E tag \in TagNames :
       \E o \in GetPostsByTag(posts, tag) :
         resp' = ReadResponse("postsByTag", o)
  /\ UNCHANGED <<postVars, contactVars, reqs, adminVars, parseVars>>

\* rows as earlier requests and imports left them
ReadRows(id) ==
  {[id |-> id, slug |-> <<"c">>, viewCount |-> 0, title |-> title,
    status |-> <<status>>, tags |-> tags, content |-> <<"y">>,
    createdAt |-> at] :
     title \in {<<"A">>, <<"b">>},
     status \in {"published", "draft"},
     tags \in {<<>>, <<<<"x">>>>},
     at \in 1..MaxPostId}

ReadTables ==
  {{p} : p \in ReadRows(1)} \cup {{p, q} : p \in ReadRows(1), q \in ReadRows(2)}

InitRead ==
  /\ posts \in ReadTables
  /\ nextPostId = Cardinality(posts) + 1
  /\ files = <<>>
  /\ contacts = {}
  /\ nextContactId = 1
  /\ reqs = NoRequests
  /\ resp = NoResponse
  /\ AdminInit
  /\ ParseInit

NextRead == ListPosts \/ Search \/ PostsByTag

SpecRead == InitRead /\ [][NextRead]_vars

\* the rows of a result, latest createdAt first
NewestFirst(o) ==
  \A i, j \in 1..Len(o) : i < j => o[i].createdAt >= o[j].createdAt

\* C28: what GET /api/posts, the search and the tag endpoint return are
\* published posts only, newest createdAt first.
C28_ReadsReturnPublishedOnly ==
  resp.op \in {"listPosts", "searchPosts", "postsByTag"}
    => /\ \A k \in 1..Len(resp.result) :
            resp.result[k].status = <<"published">>
       /\ NewestFirst(resp.result)

\* the search and the tag endpoint alone return published posts only,
\* newest first, and every result is newest first
SearchAndTagPublishedOnly ==
  /\ resp.op \in {"searchPosts", "postsByTag"}
       => \A k \in 1..Len(resp.result) :
            resp.result[k].status = <<"published">>
  /\ resp.op \in {"listPosts", "searchPosts", "postsByTag"}
       => NewestFirst(resp.result)

(***************************************************************************)
(* Admin requests and restarts of the server: SpecRestart                  *)
(***************************************************************************)
\* the server starts again and its import runs to the end, no file failing
RestartImport ==
  /\ BootImport
  /\ Faultless(resp')
  /\ nextPostId' <= MaxPostId + 1

NextRestart ==
  \/ CreatePost(Titles)
  \/ UpdatePost
  \/ DeletePostNoting(TRUE)
  \/ RestartImport

SpecRestart == Init /\ [][NextRestart]_vars

\* C25: the import of a restart that follows a successful delete inserts no
\* row with the content of the post deleted.
C25_DeletedStaysDeleted ==
  [][/\ resp.op = "deletePost"
     /\ resp.status = 200
     /\ resp'.op = "bootImport"
     => \A p \in posts' \ posts : p.title # resp.title]_vars

(***************************************************************************)
(* The import of a start, split at its awaits, among create requests:      *)
(* SpecBootRace                                                            *)
(***************************************************************************)
\* where the import is: the files readdir listed that are still to come, and
\* the post made from the file in hand
ImportAt(pc, names, post) == [pc |-> pc, names |-> names, post |-> post]

NoPost == [slug |-> NoString, title |-> NoString, status |-> NoString]

\* "const files = await fs.readdir(this.postsDir)"
ImportList ==
  /\ reqs.pc = "start"
  /\ \E order \in Orders(DOMAIN files) :
       reqs' = ImportAt("file", order, NoPost)
  /\ UNCHANGED <<postVars, contactVars, resp, adminVars, parseVars>>

\* the next file is read and "await this.getPostBySlug(slug)" answers
ImportCheck ==
  /\ reqs.pc = "file"
  /\ reqs.names # <<>>
  /\ LET k == Head(reqs.names)
         slug == SlugOfFile(FileName(k))
         md == DbParseMarkdownFile(FileText(files[k]))
     IN  reqs' = IF RowsBySlug(posts, slug) # {}
                 THEN ImportAt("file", Tail(reqs.names), NoPost)
                 ELSE ImportAt("insert", reqs.names,
                               [slug |-> slug, title |-> md.title,
                                status |-> md.status])
  /\ UNCHANGED <<postVars, contactVars, resp, adminVars, parseVars>>

\* "await db.insert(posts).values(post)" for the file found to have no row
ImportInsert ==
  /\ reqs.pc = "insert"
  /\ nextPostId <= MaxPostId + 1
  /\ LET post == [NewRow(nextPostId, reqs.post.slug, reqs.post.title)
                    EXCEPT !.status = reqs.post.status]
         r == InsertPostRow(posts, post)
     IN  /\ posts' = r.posts
         /\ nextPostId' = IF r.ok THEN nextPostId + 1 ELSE nextPostId
  /\ reqs' = ImportAt("file", Tail(reqs.names), NoPost)
  /\ UNCHANGED <<files, contactVars, resp, adminVars, parseVars>>

\* the posts directory when the server starts
RaceDirs ==
  UNION {[D -> {[title |-> <<"x">>, status |-> <<st>>] :
                  st \in {"published", "draft"}}] :
           D \in SUBSET {<<"c">>, <<"a", "-", "b">>}}

InitBootRace ==
  /\ posts = {}
  /\ nextPostId = 1
  /\ files \in RaceDirs
  /\ contacts = {}
  /\ nextContactId = 1
  /\ reqs = ImportAt("start", <<>>, NoPost)
  /\ resp = NoResponse
  /\ AdminInit
  /\ ParseInit

NextBootRace ==
  \/ ImportList
  \/ ImportCheck
  \/ ImportInsert
  \/ CreatePost(Titles)

SpecBootRace == InitBootRace /\ [][NextBootRace]_vars

\* C30: the import's insert never adds a row with a slug a stored row has.
C30_ImportAddsNoSecondRow ==
  [][reqs.pc = "insert" /\ reqs'.pc = "file"
     => \A p \in posts' \ posts : RowsBySlug(posts, p.slug) = {}]_vars

====
